---- MODULE Spec2Model ----
(***************************************************************************)
(* Model of VolatilityRegimeStrategy (src/src/strategy.py): the bar walk   *)
(* of run_backtest, the forced close after the walk and calculate_metrics. *)
(*                                                                         *)
(* Representation.                                                         *)
(*  - A date is a day number counted from data.index[0]; (a - b).days is   *)
(*    the integer difference a - b.                                        *)
(*  - self.data is revealed in index order: `row` is the row at the loop's *)
(*    most recent index, and after the loop it is the last row  of the     *)
(*    frame (data.index[-1], data['Close'].iloc[-1]).  len(self.data) is   *)
(*    the value of i when the loop ends.                                   *)
(*  - Price_Deviation and Deviation_Std are integers in one fixed-point    *)
(*    unit; a comparison  x > -0.5 * s  is computed as 10*x > -5*s.        *)
(*    Vol_Percentile is in tenths (0.7 is 7); RSI is an integer.           *)
(*  - A float computed from prices (pnl, the drawdown curve) is an exact   *)
(*    rational <<num, den>> with den > 0 in lowest terms; a metric is a    *)
(*    record [kind, val] with kind in "num", "nan", "inf", "-inf".         *)
(***************************************************************************)
EXTENDS Integers, Sequences, FiniteSets, TLC

VARIABLES pc, i, row, position, current_trade, trades, metrics, raised

vars == <<pc, i, row, position, current_trade, trades, metrics, raised>>

(***************************************************************************)
(* Bounds of the explored inputs.                                          *)
(***************************************************************************)
MaxBars == 23
MaxPrice == 2
MaxDev == 2
MaxStd == 1
MaxGap == 7
MaxSpan == 2
MaxTrades == 2

(***************************************************************************)
(* Program constants.                                                      *)
(***************************************************************************)
WarmUp == 20
TimeStop == 7
VolGate == 7
EntryMult == 12
ExitMult == 5
StopMult == 18
RsiLow == 35
RsiHigh == 65
RsiMid == 50
RiskFreeDen == 12600
DaysPerYear == 365

Unset == -1

(***************************************************************************)
(* Exact rational arithmetic.                                              *)
(***************************************************************************)
Abs(x) == IF x < 0 THEN -x ELSE x

RECURSIVE GCD(_, _)
GCD(a, b) == IF b = 0 THEN a ELSE GCD(b, a % b)

Rat(n, d) ==
    LET g == GCD(Abs(n), Abs(d))
        s == IF d < 0 THEN -1 ELSE 1
    IN  <<(s * n) \div g, (s * d) \div g>>

Zero == <<0, 1>>
One == <<1, 1>>
RatAdd(a, b) == Rat(a[1] * b[2] + b[1] * a[2], a[2] * b[2])
RatSub(a, b) == Rat(a[1] * b[2] - b[1] * a[2], a[2] * b[2])
RatMul(a, b) == Rat(a[1] * b[1], a[2] * b[2])
RatDiv(a, b) == Rat(a[1] * b[2], a[2] * b[1])
RatLess(a, b) == a[1] * b[2] < b[1] * a[2]
RatLeq(a, b) == a[1] * b[2] <= b[1] * a[2]
RatMax(a, b) == IF RatLess(a, b) THEN b ELSE a
RatSign(a) == IF a[1] > 0 THEN 1 ELSE IF a[1] < 0 THEN -1 ELSE 0

Num(r) == [kind |-> "num", val |-> r]
NaN == [kind |-> "nan", val |-> Zero]
PosInf == [kind |-> "inf", val |-> Zero]
NegInf == [kind |-> "-inf", val |-> Zero]

(***************************************************************************)
(* Trade (src/src/trade.py) and the rows of self.data.                     *)
(***************************************************************************)
Trade(entry_date, exit_date, entry_price, exit_price, pos, pnl, holding_period) ==
    [entry_date |-> entry_date, exit_date |-> exit_date,
     entry_price |-> entry_price, exit_price |-> exit_price,
     position |-> pos, pnl |-> pnl, holding_period |-> holding_period]

None == Trade(Unset, Unset, Unset, Unset, 0, Zero, 0)

NoRow == [date |-> Unset, Close |-> Unset, Price_Deviation |-> 0,
          Deviation_Std |-> 0, RSI |-> RsiMid, Vol_Percentile |-> 0]

Prices == 1..MaxPrice
Devs == (-MaxDev)..MaxDev
Stds == 1..MaxStd
RSIs == {30, 50, 70}
Vols == {5, 8}
Gaps(k) == IF k < WarmUp THEN {1} ELSE {1, MaxGap}

\* The rows that can follow row r at index k: dates strictly increase.
NextRows(k, r) ==
    {[date |-> d, Close |-> c, Price_Deviation |-> pd, Deviation_Std |-> sd,
      RSI |-> rs, Vol_Percentile |-> vp] :
        d \in (IF k = 0 THEN {0} ELSE {r.date + g : g \in Gaps(k)}),
        c \in Prices, pd \in Devs, sd \in Stds, rs \in RSIs, vp \in Vols}

(***************************************************************************)
(* generate_signals: the two entry columns, row by row.                    *)
(***************************************************************************)
long_entryNoGate(r) ==
    /\ 10 * r.Price_Deviation < -EntryMult * r.Deviation_Std
    /\ r.RSI < RsiLow

long_entry(r) ==
    /\ r.Vol_Percentile > VolGate
    /\ 10 * r.Price_Deviation < -EntryMult * r.Deviation_Std
    /\ r.RSI < RsiLow

short_entry(r) ==
    /\ r.Vol_Percentile > VolGate
    /\ 10 * r.Price_Deviation > EntryMult * r.Deviation_Std
    /\ r.RSI > RsiHigh

(***************************************************************************)
(* The exit conditions of one bar, in the order of the if/elif chain.      *)
(***************************************************************************)
MeanReversionExit(pos, r) ==
    \/ pos = 1 /\ 10 * r.Price_Deviation > -ExitMult * r.Deviation_Std
    \/ pos = -1 /\ 10 * r.Price_Deviation < ExitMult * r.Deviation_Std

RsiExit(pos, r) ==
    \/ pos = 1 /\ r.RSI > RsiMid
    \/ pos = -1 /\ r.RSI < RsiMid

StopLossExitNever(pos, r) == FALSE

StopLossExit(pos, r) ==
    \/ pos = 1 /\ 10 * r.Price_Deviation < -StopMult * r.Deviation_Std
    \/ pos = -1 /\ 10 * r.Price_Deviation > StopMult * r.Deviation_Std

TimeExit(t) == t.holding_period >= TimeStop

exit_signal(pos, t, r) ==
    \/ MeanReversionExit(pos, r)
    \/ RsiExit(pos, r)
    \/ StopLossExit(pos, r)
    \/ TimeExit(t)

(***************************************************************************)
(* Closing a trade: exit fields, final holding period and pnl.             *)
(***************************************************************************)
PnlOf(pos, entry_price, exit_price) ==
    IF pos = 1 THEN Rat(exit_price - entry_price, entry_price)
               ELSE Rat(entry_price - exit_price, entry_price)

CloseTradeStale(t, pos, date, price) ==
    [t EXCEPT !.exit_date = date, !.exit_price = price,
              !.pnl = PnlOf(pos, t.entry_price, price)]

CloseTrade(t, pos, date, price) ==
    [t EXCEPT !.exit_date = date, !.exit_price = price,
              !.holding_period = date - t.entry_date,
              !.pnl = PnlOf(pos, t.entry_price, price)]

OpenTrade(date, price, pos) == Trade(date, Unset, price, Unset, pos, Zero, 0)

State(pos, t, ts) == [position |-> pos, current_trade |-> t, trades |-> ts]

\* lines 87-124: the exit branch
ExitBranchKeepTrade(s, r) ==
    IF exit_signal(s.position, s.current_trade, r)
    THEN State(0, s.current_trade,
               Append(s.trades, CloseTrade(s.current_trade, s.position, r.date, r.Close)))
    ELSE s

ExitBranch(s, r) ==
    IF exit_signal(s.position, s.current_trade, r)
    THEN State(0, None,
               Append(s.trades, CloseTrade(s.current_trade, s.position, r.date, r.Close)))
    ELSE s

\* lines 127-150: the entry branch
EntryBranch(s, r) ==
    IF long_entry(r) THEN State(1, OpenTrade(r.date, r.Close, 1), s.trades)
    ELSE IF short_entry(r) THEN State(-1, OpenTrade(r.date, r.Close, -1), s.trades)
    ELSE s

\* lines 152-153
UpdateHolding(s, r) ==
    IF s.current_trade # None
    THEN [s EXCEPT !.current_trade.holding_period = r.date - s.current_trade.entry_date]
    ELSE s

BarBodyReversal(s, r) ==
    LET afterExit == IF s.position # 0 /\ s.current_trade # None
                     THEN ExitBranch(s, r) ELSE s
        afterEntry == IF afterExit.position = 0
                      THEN EntryBranch(afterExit, r) ELSE afterExit
    IN  UpdateHolding(afterEntry, r)

\* lines 83-153: one iteration of the loop past the warm-up
BarBody(s, r) ==
    UpdateHolding(IF s.position # 0 /\ s.current_trade # None THEN ExitBranch(s, r)
                  ELSE IF s.position = 0 THEN EntryBranch(s, r)
                  ELSE s, r)

SkippedShort(k) == k < WarmUp - 1
Skipped(k) == k < WarmUp

(***************************************************************************)
(* calculate_metrics.                                                      *)
(***************************************************************************)
\* numpy float division x / y: a zero divisor gives inf, -inf or nan
FloatDiv(x, y) ==
    IF y # Zero THEN Num(RatDiv(x, y))
    ELSE IF RatSign(x) > 0 THEN PosInf
    ELSE IF RatSign(x) < 0 THEN NegInf
    ELSE NaN

Returns(ts) == [k \in 1..Len(ts) |-> ts[k].pnl]

RECURSIVE SumTo(_, _)
SumTo(rs, k) == IF k = 0 THEN Zero ELSE RatAdd(SumTo(rs, k - 1), rs[k])

\* np.cumprod(1 + returns)[k]
RECURSIVE CumProd(_, _)
CumProd(rs, k) ==
    IF k = 0 THEN One ELSE RatMul(CumProd(rs, k - 1), RatAdd(One, rs[k]))

\* np.maximum.accumulate(cumulative_returns)[k]
RECURSIVE RollingMax(_, _)
RollingMax(rs, k) ==
    IF k = 1 THEN CumProd(rs, 1)
    ELSE RatMax(RollingMax(rs, k - 1), CumProd(rs, k))

\* ((cumulative_returns - rolling_max) / rolling_max)[k]
Drawdown(rs, k) ==
    FloatDiv(RatSub(CumProd(rs, k), RollingMax(rs, k)), RollingMax(rs, k))

\* np.min(drawdowns): nan if any element is nan
MinDrawdown(rs) ==
    LET ks == 1..Len(rs)
    IN  IF \E k \in ks : Drawdown(rs, k).kind = "nan" THEN NaN
        ELSE IF \E k \in ks : Drawdown(rs, k).kind = "-inf" THEN NegInf
        ELSE IF \A k \in ks : Drawdown(rs, k).kind = "inf" THEN PosInf
        ELSE LET fin == {k \in ks : Drawdown(rs, k).kind = "num"}
                 m == CHOOSE k \in fin :
                        \A j \in fin : RatLeq(Drawdown(rs, k).val, Drawdown(rs, j).val)
             IN  Drawdown(rs, m)

\* np.std(excess_returns) == 0 in exact arithmetic: all returns are equal
StdIsZero(rs) == \A j, k \in 1..Len(rs) : rs[j] = rs[k]

\* sqrt(252) * mean(excess) / std(excess); of a finite ratio only the sign
\* is kept in val
SharpeRatio(rs) ==
    LET mean == RatDiv(SumTo(rs, Len(rs)), <<Len(rs), 1>>)
        excess == RatSub(mean, <<1, RiskFreeDen>>)
    IN  IF StdIsZero(rs) THEN FloatDiv(excess, Zero)
        ELSE Num(<<RatSign(excess), 1>>)

\* (1 + total_return) ** (1/years) - 1 for days > 0; of a finite value only
\* the sign is kept in val.  A negative base with a non-integer exponent is
\* nan; 1/(days/365) is an integer exactly when days divides 365.
Cagr(rs, days) ==
    LET base == CumProd(rs, Len(rs))
        whole == DaysPerYear % days = 0
        e == DaysPerYear \div days
    IN  IF RatSign(base) >= 0 THEN Num(<<RatSign(RatSub(base, One)), 1>>)
        ELSE IF ~whole THEN NaN
        ELSE IF e % 2 = 1 THEN Num(<<-1, 1>>)
        ELSE Num(<<RatSign(RatSub(<<-base[1], base[2]>>, One)), 1>>)

NoValue == [kind |-> "none", val |-> Zero]

Metrics(total_trades, win_rate, avg_return, sharpe_ratio, max_drawdown, cagr) ==
    [total_trades |-> total_trades, win_rate |-> win_rate,
     avg_return |-> avg_return, sharpe_ratio |-> sharpe_ratio,
     max_drawdown |-> max_drawdown, cagr |-> cagr]

NoMetrics == Metrics(Unset, NoValue, NoValue, NoValue, NoValue, NoValue)
ZeroMetrics == Metrics(0, Num(Zero), Num(Zero), Num(Zero), Num(Zero), Num(Zero))

Outcome(err, m) == [raised |-> err, metrics |-> m]

\* days is (self.data.index[-1] - self.data.index[0]).days
calculate_metrics(ts, days) ==
    IF ts = <<>> THEN Outcome("none", ZeroMetrics)
    ELSE LET rs == Returns(ts)
             total == Len(ts)
             winning == Cardinality({k \in 1..total : RatSign(rs[k]) > 0})
         IN  IF days = 0 THEN Outcome("ZeroDivisionError", NoMetrics)
             ELSE Outcome("none",
                          Metrics(total, Num(Rat(winning, total)),
                                  Num(RatDiv(SumTo(rs, total), <<total, 1>>)),
                                  SharpeRatio(rs), MinDrawdown(rs), Cagr(rs, days)))

(***************************************************************************)
(* The state machine of run_backtest.                                      *)
(***************************************************************************)
Init ==
    /\ pc = "new"
    /\ i = 0
    /\ row = NoRow
    /\ position = 0
    /\ current_trade = None
    /\ trades = <<>>
    /\ metrics = NoMetrics
    /\ raised = "none"

\* lines 73-77
RunBacktest ==
    /\ pc = "new"
    /\ pc' = "loop"
    /\ trades' = <<>>
    /\ position' = 0
    /\ current_trade' = None
    /\ UNCHANGED <<i, row, metrics, raised>>

\* lines 79-81: an iteration inside the warm-up
SkipBar ==
    /\ pc = "loop"
    /\ i < MaxBars
    /\ Skipped(i)
    /\ \E r \in NextRows(i, row) : row' = r
    /\ i' = i + 1
    /\ UNCHANGED <<pc, position, current_trade, trades, metrics, raised>>

\* lines 83-153: an iteration past the warm-up
ProcessBar ==
    /\ pc = "loop"
    /\ i < MaxBars
    /\ ~Skipped(i)
    /\ \E r \in NextRows(i, row) :
         \E s \in {BarBody(State(position, current_trade, trades), r)} :
             /\ row' = r
             /\ position' = s.position
             /\ current_trade' = s.current_trade
             /\ trades' = s.trades
    /\ i' = i + 1
    /\ UNCHANGED <<pc, metrics, raised>>

\* lines 155-166: the loop is over, len(self.data) = i
CloseRemaining ==
    /\ pc = "loop"
    /\ pc' = "metrics"
    /\ IF current_trade # None
       THEN /\ current_trade' = CloseTrade(current_trade, position, row.date, row.Close)
            /\ trades' = Append(trades, current_trade')
       ELSE UNCHANGED <<current_trade, trades>>
    /\ UNCHANGED <<i, row, position, metrics, raised>>

\* lines 168-219
CalculateMetrics ==
    /\ pc = "metrics"
    /\ LET out == calculate_metrics(trades, row.date)
       IN  /\ raised' = out.raised
           /\ metrics' = out.metrics
           /\ pc' = IF out.raised = "none" THEN "done" ELSE "raised"
    /\ UNCHANGED <<i, row, position, current_trade, trades>>

Next == RunBacktest \/ SkipBar \/ ProcessBar \/ CloseRemaining \/ CalculateMetrics

Spec == Init /\ [][Next]_vars

(***************************************************************************)
(* calculate_metrics on its own: self.trades and the span of the index     *)
(* are drawn from bounded sets.                                            *)
(***************************************************************************)
ClosedTrades(span) ==
    {CloseTrade(OpenTrade(0, p, pos), pos, span, q) :
        p \in Prices, q \in Prices, pos \in {1, -1}}

TradeLists(span) ==
    UNION {[1..k -> ClosedTrades(span)] : k \in 0..MaxTrades}

InitMetrics ==
    /\ pc = "metrics"
    /\ i = 0
    /\ \E span \in 0..MaxSpan :
         /\ row = [NoRow EXCEPT !.date = span]
         /\ trades \in TradeLists(span)
    /\ position = 0
    /\ current_trade = None
    /\ metrics = NoMetrics
    /\ raised = "none"

NextMetrics == CalculateMetrics

SpecMetrics == InitMetrics /\ [][NextMetrics]_vars

(***************************************************************************)
(* Properties.                                                             *)
(***************************************************************************)
\* one iteration of the for loop
LoopStep == pc = "loop" /\ pc' = "loop" /\ i' = i + 1

Last(ts) == ts[Len(ts)]

Finished == pc \in {"done", "raised"}

\* C1: at every point of run_backtest at most one Trade is open: position is
\* -1, 0 or 1, current_trade is set exactly when position is not 0 and is then
\* an open Trade of that direction, every listed Trade is closed, and a new
\* Trade is created only on a bar that started flat with no current trade.
C1_SingleOpenTrade ==
    /\ [](/\ position \in {-1, 0, 1}
          /\ (current_trade # None) <=> (position # 0)
          /\ current_trade # None => current_trade.position = position
          /\ (pc = "loop" /\ current_trade # None) => current_trade.exit_date = Unset
          /\ \A k \in 1..Len(trades) : trades[k].exit_date # Unset)
    /\ [][(LoopStep /\ current_trade' # None /\ current_trade'.entry_date = row'.date)
            => (position = 0 /\ current_trade = None)]_vars

\* a second trade is open after a first one was closed
C1_Witness ==
    pc = "loop" /\ position # 0 /\ current_trade # None /\ Len(trades) = 1

\* C2: when the walk ends with a position open, one Trade is appended with
\* exit_date the last bar's date and exit_price the last close, and the
\* simulator is then flat (position 0, no current trade).
C2_ForcedCloseFlat ==
    [][(pc = "loop" /\ pc' = "metrics" /\ position # 0)
         => /\ Len(trades') = Len(trades) + 1
            /\ Last(trades').exit_date = row.date
            /\ Last(trades').exit_price = row.Close
            /\ position' = 0
            /\ current_trade' = None]_vars

\* C3: on a bar processed with a position open, holding_period is the day
\* difference between the bar's date and entry_date, and when that difference
\* is 7 or more the position is closed on that same bar.
C3_TimeStopSameBar ==
    [][(LoopStep /\ position # 0 /\ current_trade # None)
         => /\ current_trade' # None
                => current_trade'.holding_period = row'.date - current_trade.entry_date
            /\ row'.date - current_trade.entry_date >= 7
                => (position' = 0 /\ Len(trades') = Len(trades) + 1)]_vars

\* C4: a bar that starts with an open position either closes it and ends flat
\* or keeps the same trade; it never opens a Trade, whatever the entry signals
\* of that bar, so an entry follows an exit on a later bar only.
C4_NoSameBarReversal ==
    /\ [][(LoopStep /\ position # 0)
            => \/ /\ position' = 0
                  /\ current_trade' = None
                  /\ Len(trades') = Len(trades) + 1
               \/ /\ position' = position
                  /\ trades' = trades
                  /\ current_trade' =
                       [current_trade EXCEPT
                          !.holding_period = row'.date - current_trade.entry_date]]_vars
    /\ []((pc = "loop" /\ current_trade # None /\ trades # <<>>)
            => current_trade.entry_date > Last(trades).exit_date)

\* a bar closed a position while its own entry signal was true, and ended flat
C4_Witness ==
    /\ pc = "loop"
    /\ position = 0
    /\ trades # <<>>
    /\ Last(trades).exit_date = row.date
    /\ (long_entry(row) \/ short_entry(row))

\* C5: nothing is opened on the first 20 bars (no trade has an entry date
\* before bar 20), and a series of at most 20 bars ends with no trades and
\* the all-zero metrics, without raising.
C5_WarmUp ==
    /\ (pc = "loop" /\ i <= 20)
         => (position = 0 /\ current_trade = None /\ trades = <<>>)
    /\ current_trade # None => current_trade.entry_date >= 20
    /\ \A k \in 1..Len(trades) : trades[k].entry_date >= 20
    /\ (pc # "loop" /\ i <= 20) => (trades = <<>> /\ pc # "raised")
    /\ (pc = "done" /\ i <= 20) => metrics = ZeroMetrics

\* a series shorter than the warm-up whose last bar carried an entry signal
C5_Witness ==
    /\ pc = "done"
    /\ i > 0
    /\ i < 20
    /\ (long_entry(row) \/ short_entry(row))
    /\ metrics = ZeroMetrics

\* C6: every listed Trade has exit_date set and holding_period equal to
\* exit_date - entry_date.
C6_HoldingPeriodExact ==
    \A k \in 1..Len(trades) :
        /\ trades[k].exit_date # Unset
        /\ trades[k].holding_period = trades[k].exit_date - trades[k].entry_date

\* one trade closed by an exit after several days, one by the forced close
C6_Witness ==
    /\ pc = "done"
    /\ Len(trades) = 2
    /\ trades[1].holding_period > 1
    /\ position # 0
    /\ trades[2].exit_date = row.date

\* C7: with a non-empty trade list whose excess returns have zero standard
\* deviation, calculate_metrics returns a finite sharpe_ratio (no inf, no nan,
\* no error).
C7_SharpeFallback ==
    (Finished /\ trades # <<>> /\ \A j, k \in 1..Len(trades) : trades[j].pnl = trades[k].pnl)
        => (raised = "none" /\ metrics.sharpe_ratio.kind = "num")

\* C8: with a non-empty trade list and equal first and last dates,
\* calculate_metrics returns a defined cagr and does not raise.
C8_CagrGuard ==
    (Finished /\ trades # <<>> /\ row.date = 0)
        => (raised = "none" /\ metrics.cagr.kind = "num")

\* C9: for a non-empty trade list produced by run_backtest max_drawdown is
\* at most 0, and it is 0 when every pnl is non-negative.
C9_MaxDrawdownNonPositive ==
    (Finished /\ trades # <<>>)
        => /\ raised = "none"
           /\ \/ metrics.max_drawdown.kind = "-inf"
              \/ /\ metrics.max_drawdown.kind = "num"
                 /\ metrics.max_drawdown.val[1] <= 0
           /\ (\A k \in 1..Len(trades) : trades[k].pnl[1] >= 0)
                => metrics.max_drawdown = Num(Zero)

\* C10: on a bar past the warm-up that starts with an open position, the
\* position is closed whenever the mean-reversion, RSI or stop-loss condition
\* holds; it is not closed when none holds and fewer than 7 days have passed
\* since entry; a close appends the Trade with that bar's date and close and
\* leaves the simulator flat.
C10_ExitConditions ==
    [][(LoopStep /\ i >= 20 /\ position # 0)
         => LET x == 10 * row'.Price_Deviation
                sd == row'.Deviation_Std
                meanrev == \/ position = 1 /\ x > -5 * sd
                           \/ position = -1 /\ x < 5 * sd
                rsi == \/ position = 1 /\ row'.RSI > 50
                       \/ position = -1 /\ row'.RSI < 50
                stop == \/ position = 1 /\ x < -18 * sd
                        \/ position = -1 /\ x > 18 * sd
                closed == position' = 0
            IN  /\ (meanrev \/ rsi \/ stop) => closed
                /\ closed => \/ meanrev \/ rsi \/ stop
                             \/ row'.date - current_trade.entry_date >= 7
                /\ closed => /\ current_trade' = None
                             /\ Len(trades') = Len(trades) + 1
                             /\ SubSeq(trades', 1, Len(trades)) = trades
                             /\ Last(trades').entry_date = current_trade.entry_date
                             /\ Last(trades').exit_date = row'.date
                             /\ Last(trades').exit_price = row'.Close]_vars

\* a long position closed by the stop-loss alone, within 7 days of entry
C10_Witness ==
    /\ pc = "loop"
    /\ position = 0
    /\ trades # <<>>
    /\ Last(trades).exit_date = row.date
    /\ Last(trades).position = 1
    /\ Last(trades).holding_period < 7
    /\ 10 * row.Price_Deviation < -18 * row.Deviation_Std
    /\ row.RSI <= 50

\* C11: a bar past the warm-up that starts flat opens a Long trade at its date
\* and close iff vol_percentile > 0.7, price_deviation < -1.2*deviation_std
\* and rsi < 35; otherwise a Short trade iff vol_percentile > 0.7,
\* price_deviation > 1.2*deviation_std and rsi > 65; otherwise it stays flat.
\* The two entry signals are never both true on one bar.
C11_EntryConditions ==
    /\ [][(LoopStep /\ i >= 20 /\ position = 0)
            => LET x == 10 * row'.Price_Deviation
                   sd == row'.Deviation_Std
                   long == row'.Vol_Percentile > 7 /\ x < -12 * sd /\ row'.RSI < 35
                   short == row'.Vol_Percentile > 7 /\ x > 12 * sd /\ row'.RSI > 65
               IN  /\ trades' = trades
                   /\ IF long
                      THEN /\ position' = 1
                           /\ current_trade' =
                                Trade(row'.date, Unset, row'.Close, Unset, 1, Zero, 0)
                      ELSE IF short
                      THEN /\ position' = -1
                           /\ current_trade' =
                                Trade(row'.date, Unset, row'.Close, Unset, -1, Zero, 0)
                      ELSE /\ position' = 0
                           /\ current_trade' = None]_vars
    /\ [](~(long_entry(row) /\ short_entry(row)))

\* a Short trade was opened on the bar just processed, after an earlier trade
C11_Witness ==
    /\ pc = "loop"
    /\ i > 20
    /\ position = -1
    /\ current_trade.entry_date = row.date
    /\ current_trade.entry_price = row.Close
    /\ Len(trades) = 1

\* C12: the trade list is chronologically ordered and non-overlapping: each
\* trade is entered after the previous one was closed, a trade closed by an
\* exit condition has exit_date after entry_date, and only the last trade,
\* force-closed on the bar it was entered on, has exit_date = entry_date.
C12_TradesOrdered ==
    /\ \A k \in 1..(Len(trades) - 1) : trades[k + 1].entry_date > trades[k].exit_date
    /\ \A k \in 1..Len(trades) :
         /\ trades[k].exit_date >= trades[k].entry_date
         /\ trades[k].exit_date = trades[k].entry_date
              => (k = Len(trades) /\ pc # "loop" /\ trades[k].exit_date = row.date)

\* an exit-closed trade followed by a trade entered on the last bar and
\* force-closed there
C12_Witness ==
    /\ pc = "done"
    /\ Len(trades) = 2
    /\ trades[1].exit_date > trades[1].entry_date
    /\ trades[2].entry_date > trades[1].exit_date
    /\ trades[2].exit_date = trades[2].entry_date

====
